---- MODULE Spec2Model ----
(***************************************************************************)
(* Model of the discord-backup-bot restore ("/backup load"), delete and    *)
(* reference-id bookkeeping.                                               *)
(*                                                                         *)
(*   src/src/cogs/backuphandler.py   backup_load_callback, delete_all,     *)
(*                                   handle_channels, backup_delete_callback*)
(*   src/src/utils/database.py       Database (reference_ids, backups)     *)
(*                                                                         *)
(* Python dicts are TLA+ functions with string domains (records); None is  *)
(* the integer 0, every id is a positive integer.  A remote call (create,  *)
(* edit, delete) either succeeds or raises; the choice is nondeterministic.*)
(* The guild cache is taken to be up to date after every awaited call.     *)
(***************************************************************************)
EXTENDS Integers, Sequences, FiniteSets, TLC

None == 0

\* ------------------------------------------------------------------ bounds
\* number of /backup load invocations explored in one behaviour
MaxRuns == 2
\* number of direct Database calls explored in one behaviour of SpecRef
MaxOps == 4

\* ------------------------------------------------------------ identifiers
SourceGuild == 1          \* the guild the snapshot was captured in
OtherGuild == 2           \* a different guild
Guilds == {SourceGuild, OtherGuild}
BK == "bk"                \* id of the stored snapshot
BackupIds == {"bk", "zz"} \* "zz" is not stored at the start
FirstNewId == 100         \* first snowflake the remote hands out

EveryoneId == 1           \* snapshot id of the position-0 role (= source guild id)
RoleR == 21               \* snapshot id of the position-1 role
CatK == 10                \* snapshot category
ChanX == 11               \* snapshot text channel, child of CatK
ChanV == 12               \* snapshot voice-like channel
ChanU == 14               \* snapshot text channel (updates channel)
CatL == 17                \* second snapshot category
ChanY == 18               \* snapshot text channel, child of CatL
IconKey == 9              \* key of a stored role icon
SourceMember == 8         \* a member of the source guild only
BotRoleId == 5            \* the managed role of the bot in the source guild

\* ------------------------------------------------------------ dict helpers
Pop(d, k) == [j \in DOMAIN d \ {k} |-> d[j]]
Put(d, k, v) == (k :> v) @@ d
Get(d, k) == IF k \in DOMAIN d THEN d[k] ELSE None
EmptyDict == [j \in {} |-> None]

RECURSIVE SeqToSet(_)
SeqToSet(s) == IF s = <<>> THEN {} ELSE {Head(s)} \cup SeqToSet(Tail(s))

\* Python's sorted(list, key=...): a stable sort; keys[i] is the key of s[i]
RECURSIVE InsertIdx(_, _, _)
InsertIdx(i, perm, keys) ==
    IF perm = <<>> THEN <<i>>
    ELSE IF keys[i] < keys[Head(perm)] THEN <<i>> \o perm
    ELSE <<Head(perm)>> \o InsertIdx(i, Tail(perm), keys)

RECURSIVE SortPerm(_, _)
SortPerm(n, keys) ==
    IF n = 0 THEN <<>> ELSE InsertIdx(n, SortPerm(n - 1, keys), keys)

sorted(s, keys) == [j \in 1..Len(s) |-> s[SortPerm(Len(s), keys)[j]]]

\* ------------------------------------------------------------ channel types
TextLike == {0, 5, 10, 11, 12, 15}
VoiceLike == {2, 13}
FallbackVoice == {3, 13}

VARIABLES
    refs,        \* table reference_ids: set of rows
    backups,     \* table backups (+ per-channel / per-role rows): id -> snapshot
    guilds,      \* live state of every guild
    nextId,      \* next snowflake of the remote
    pc,          \* position of the running backup_load_callback
    target,      \* interaction.guild.id
    backup_id,   \* argument backup_id
    clear_guild, \* argument clear_guild
    command,     \* the slash command of the current invocation
    ichans,      \* the channels the command can have been issued in
    ichan,       \* interaction.channel.id (read at line 574 only)
    rules_id, updates_id,
    dlist, di,   \* delete_all: iterable (ids) and loop position
    all_used_roles, all_backup_channels,
    ri,          \* loop position in sorted(guild_backup.roles)
    category_data, channel_data,
    ci,          \* loop position in handle_channels
    category_backup_success, channels_backup_success,
    log,         \* remote calls issued by the current invocation
    msgs,        \* messages sent to the caller by the current invocation
    visited,     \* snapshot resources handled by the current invocation
    runs,        \* number of restores so far
    hist,        \* summary of the previous restore
    ops,         \* number of direct calls of the reference methods so far
    track,       \* per (backup, guild, old id): the last set / delete requested
    raised,      \* the last Database call raised
    db,          \* tables backups, guild_channels, guild_roles: sets of rows
    last         \* the last direct call of a snapshot method, and db before it

vars == <<refs, backups, guilds, nextId, pc, target, backup_id, clear_guild, command,
          ichans, ichan,
          rules_id, updates_id, dlist, di, all_used_roles, all_backup_channels,
          ri, category_data, channel_data, ci, category_backup_success,
          channels_backup_success, log, msgs, visited, runs, hist,
          ops, track, raised, db, last>>

locals == <<target, backup_id, clear_guild, command, ichans, rules_id, updates_id>>
loopvars == <<dlist, di, ri, ci>>
chandata == <<category_data, channel_data>>
success == <<category_backup_success, channels_backup_success>>
used == <<all_used_roles, all_backup_channels>>
storevars == <<db, last>>
dbvars == <<ops, track, raised, db, last>>

\* ---------------------------------------------------------------- Database
Row(old, new, b, g) == [old_id |-> old, new_id |-> new, backup_id |-> b, guild_id |-> g]

\* CREATE UNIQUE INDEX ref_index ON reference_ids (old_id, backup_id)
ref_index(r1, r2) == r1.old_id = r2.old_id /\ r1.backup_id = r2.backup_id

Matching(rf, b, g, old) ==
    {r \in rf : r.backup_id = b /\ r.old_id = old /\ r.guild_id = g}

get_reference_id(rf, b, g, reference_id) ==
    IF Matching(rf, b, g, reference_id) # {}
    THEN (CHOOSE r \in Matching(rf, b, g, reference_id) : TRUE).new_id
    ELSE reference_id

\* a bare INSERT on a table without index
set_reference_id_insert_only(rf, b, g, old, new) ==
    [refs |-> rf \cup {Row(old, new, b, g)}, ok |-> TRUE]

\* result: the table afterwards and whether the call returned (ok) or raised
\* sqlite3.IntegrityError (the INSERT collides with ref_index)
set_reference_id(rf, b, g, old, new) ==
    IF old = new THEN [refs |-> rf, ok |-> TRUE]
    ELSE IF Matching(rf, b, g, old) # {}
    THEN [refs |-> (rf \ Matching(rf, b, g, old)) \cup {Row(old, new, b, g)},
          ok |-> TRUE]
    ELSE IF \E r \in rf : ref_index(r, Row(old, new, b, g))
    THEN [refs |-> rf, ok |-> FALSE]
    ELSE [refs |-> rf \cup {Row(old, new, b, g)}, ok |-> TRUE]

\* DELETE ... WHERE backup_id = ? AND old_id = ?, whatever the guild
del_reference_id_any_guild(rf, b, g, old) ==
    {r \in rf : ~(r.backup_id = b /\ r.old_id = old)}

del_reference_id(rf, b, g, old) == rf \ Matching(rf, b, g, old)

\* DELETE FROM reference_ids without a WHERE clause
del_references_of_every_backup(rf, b) == {}

del_references_of_backup(rf, b) == {r \in rf : r.backup_id # b}

\* the calls explored directly against the Database
RefBackups == {"bk", "b2"}
RefOldIds == {ChanX, ChanV}
RefNewIds == {ChanX, FirstNewId}
RefKeys == RefBackups \X Guilds \X RefOldIds
Untracked == [st |-> "none", val |-> None]

get_backup(b) == IF b \in DOMAIN backups THEN backups[b] ELSE None
HasBackup(b) == b \in DOMAIN backups

\* ------------------------------------------------------------- live guilds
RoleIds(g) == [i \in 1..Len(guilds[g].roles) |-> guilds[g].roles[i].id]
ChannelIds(g) == [i \in 1..Len(guilds[g].channels) |-> guilds[g].channels[i].id]

HasRole(g, id) == \E i \in 1..Len(guilds[g].roles) : guilds[g].roles[i].id = id
HasChannel(g, id) == \E i \in 1..Len(guilds[g].channels) : guilds[g].channels[i].id = id
HasMember(g, id) == id \in guilds[g].members

get_role(g, id) ==
    guilds[g].roles[CHOOSE i \in 1..Len(guilds[g].roles) : guilds[g].roles[i].id = id]
get_channel(g, id) ==
    guilds[g].channels[CHOOSE i \in 1..Len(guilds[g].channels) : guilds[g].channels[i].id = id]

RolePosition(g, id) ==
    (CHOOSE i \in 1..Len(guilds[g].roles) : guilds[g].roles[i].id = id) - 1

\* guild.text_channels
text_channels(g) ==
    {guilds[g].channels[i].id : i \in {j \in 1..Len(guilds[g].channels) :
                                        guilds[g].channels[j].type \in {0, 5}}}

is_bot_managed(r) == r.kind = "bot"
is_integration(r) == r.kind = "integration"
is_assignable(r) == r.kind = "normal"
\* the role is bot managed and its first member is the bot itself
IsOwnBotRole(r) == r.kind = "bot"

\* ------------------------------------------------- snapshots and guild shapes
\* a role dict as get_backup returns it; "name" stands for name, permissions,
\* colour, hoist and mentionable together
RoleDict(id, name, position, icon) ==
    [id |-> id, name |-> name, position |-> position, display_icon |-> icon]

\* channel dicts as get_backup returns them: the key set depends on the type;
\* "name" stands for name, nsfw, permissions_synced and the type's scalar
\* attributes other than user_limit
CategoryDict(id, name, position, ows) ==
    [id |-> id, name |-> name, position |-> position, type |-> 4, overwrites |-> ows]
TextDict(id, type, name, position, cat, ows) ==
    [id |-> id, name |-> name, position |-> position, type |-> type,
     overwrites |-> ows, category_id |-> cat]
VoiceDict(id, type, name, position, cat, ows, limit) ==
    [id |-> id, name |-> name, position |-> position, type |-> type,
     overwrites |-> ows, category_id |-> cat, user_limit |-> limit]

Snapshot(vtype, community, icon) ==
    [channels |-> <<TextDict(ChanX, 0, 1, 0, CatK, <<RoleR, SourceMember>>),
                    CategoryDict(CatK, 1, 0, <<>>),
                    VoiceDict(ChanV, vtype, 1, 1, None, <<>>,
                              IF vtype = 13 THEN 10000 ELSE 5)>>
                  \o (IF community THEN <<TextDict(ChanU, 0, 1, 2, None, <<>>)>>
                      ELSE <<>>),
     roles |-> <<RoleDict(RoleR, 1, 1, icon), RoleDict(EveryoneId, 1, 0, None)>>,
     rules_channel |-> IF community THEN ChanX ELSE None,
     public_updates_channel |-> IF community THEN ChanU ELSE None]

\* live resources
Role(id, name, kind, icon) == [id |-> id, name |-> name, kind |-> kind, display_icon |-> icon]
Channel(id, type, name, position, cat, ows, limit) ==
    [id |-> id, type |-> type, name |-> name, position |-> position,
     category_id |-> cat, overwrites |-> ows, user_limit |-> limit]

\* the live channel a snapshot dict describes
ChannelFromDict(d) ==
    Channel(d.id, d.type, d.name, d.position, Get(d, "category_id"),
            d.overwrites, Get(d, "user_limit"))

Guild(roles, channels, rules, updates, icons) ==
    [roles |-> roles, channels |-> channels, rules_channel |-> rules,
     public_updates_channel |-> updates, role_icons |-> icons, members |-> {7}]

\* the source guild exactly as it was captured
Pristine(snap) ==
    [Guild(<<Role(SourceGuild, 1, "default", None),
             Role(RoleR, 1, "normal", snap.roles[1].display_icon),
             Role(5, 1, "bot", None)>>,
           [i \in 1..Len(snap.channels) |-> ChannelFromDict(snap.channels[i])],
           snap.rules_channel, snap.public_updates_channel,
           snap.roles[1].display_icon # None)
     EXCEPT !.members = {7, SourceMember}]

\* the source guild after it was changed by hand: edited resources, a deleted
\* voice channel, two extra roles and an extra channel, community mode off
Drifted(snap) ==
    Guild(<<Role(SourceGuild, 2, "default", None),
            Role(RoleR, 2, "normal", None),
            Role(22, 1, "normal", None),
            Role(23, 1, "normal", None),
            Role(5, 1, "bot", None)>>,
          <<Channel(CatK, 4, 2, 0, None, <<>>, None),
            Channel(ChanX, 0, 1, 0, None, <<>>, None),
            Channel(15, 0, 1, 3, None, <<>>, None)>>,
          None, None, snap.roles[1].display_icon # None)

\* the source guild with every captured resource still there, after its rules
\* and updates channels were moved to two channels made later
Rezoned(snap) ==
    [Guild(<<Role(SourceGuild, 1, "default", None),
             Role(RoleR, 1, "normal", snap.roles[1].display_icon),
             Role(5, 1, "bot", None)>>,
           [i \in 1..Len(snap.channels) |-> ChannelFromDict(snap.channels[i])]
           \o <<Channel(15, 0, 1, 3, None, <<>>, None),
                Channel(16, 0, 1, 4, None, <<>>, None)>>,
           15, 16, snap.roles[1].display_icon # None)
     EXCEPT !.members = {7, SourceMember}]

\* the states of the source guild explored for a snapshot
SourceShapes(snap) ==
    {Pristine(snap), Drifted(snap)}
    \cup (IF snap.rules_channel # None THEN {Rezoned(snap)} ELSE {})

\* a different guild, with or without community mode
Foreign(community) ==
    Guild(<<Role(OtherGuild, 1, "default", None),
            Role(32, 1, "normal", None),
            Role(6, 1, "bot", None)>>,
          <<Channel(51, 0, 1, 0, None, <<>>, None)>>
          \o (IF community THEN <<Channel(53, 0, 1, 1, None, <<>>, None),
                                  Channel(54, 0, 1, 2, None, <<>>, None)>>
              ELSE <<>>),
          IF community THEN 53 ELSE None, IF community THEN 54 ELSE None, FALSE)

\* os.path.exists(assets/<key>.png): the icon of a captured role was stored
asset_exists(key) == key = IconKey

\* ------------------------------------------------------- snapshot tables
\* json.dumps / json.loads
json_dumps(x) == <<"json", x>>
json_loads(t) == t[2]

EmptyStore == [backups |-> {}, guild_channels |-> {}, guild_roles |-> {}]

\* no primary key on backups.id
primary_key_absent(d, id) == FALSE

\* line 49: id VARCHAR(10) PRIMARY KEY
primary_key(d, id) == \E r \in d.backups : r.id = id

\* lines 79-83: CREATE UNIQUE INDEX channel_index ON guild_channels (id, backup_id)
channel_index(d, id, row_id) ==
    \E r \in d.guild_channels : r.data.id = row_id /\ r.backup_id = id

\* lines 99-103: CREATE UNIQUE INDEX roles_index ON guild_roles (id, backup_id)
roles_index(d, id, row_id) ==
    \E r \in d.guild_roles : r.data.id = row_id /\ r.backup_id = id

IdsOf(s) == [i \in 1..Len(s) |-> s[i].id]

\* lines 112-124: the row of table backups
BackupRow(id, snap) ==
    [id |-> id,
     guild_channels |-> json_dumps(IdsOf(snap.channels)),
     guild_roles |-> json_dumps(IdsOf(snap.roles)),
     guild_rules_channel |-> snap.rules_channel,
     guild_public_updates_channel |-> snap.public_updates_channel]

\* lines 126-137: one INSERT INTO guild_channels per channel; the first one
\* that breaks channel_index raises and ends the loop
RECURSIVE InsertChannels(_, _, _)
InsertChannels(d, id, chans) ==
    IF chans = <<>> THEN [ok |-> TRUE, db |-> d]
    ELSE LET channel == [Head(chans) EXCEPT !.overwrites = json_dumps(@)]
         IN IF channel_index(d, id, channel.id) THEN [ok |-> FALSE, db |-> d]
            ELSE InsertChannels(
                    [d EXCEPT !.guild_channels = @ \cup {[backup_id |-> id, data |-> channel]}],
                    id, Tail(chans))

\* lines 139-149: one INSERT INTO guild_roles per role ("name" stands for
\* the serialised colour too)
RECURSIVE InsertRoles(_, _, _)
InsertRoles(d, id, roles) ==
    IF roles = <<>> THEN [ok |-> TRUE, db |-> d]
    ELSE IF roles_index(d, id, Head(roles).id) THEN [ok |-> FALSE, db |-> d]
    ELSE InsertRoles(
            [d EXCEPT !.guild_roles = @ \cup {[backup_id |-> id, data |-> Head(roles)]}],
            id, Tail(roles))

\* Database.insert_backup: the statements run one by one in one transaction;
\* a statement that raises sqlite3.IntegrityError changes nothing itself and
\* leaves the rows of the statements before it in place
insert_backup(d, id, snap) ==
    IF primary_key(d, id) THEN [ok |-> FALSE, db |-> d]
    ELSE LET c == InsertChannels([d EXCEPT !.backups = @ \cup {BackupRow(id, snap)}],
                                 id, snap.channels)
         IN IF c.ok THEN InsertRoles(c.db, id, snap.roles) ELSE c

\* lines 187-205: the keys of a channel dict depend on the channel's type
ChannelKeys(type) ==
    {"id", "name", "position", "type", "overwrites"}
        \cup (IF type \in {0, 5, 10, 11, 12, 15} THEN {"category_id"}
              ELSE IF type \in {2, 13} THEN {"category_id", "user_limit"}
              ELSE {})

RECURSIVE SelectRows(_, _, _)
SelectRows(rows, id, ids) ==
    IF ids = <<>> THEN <<>>
    ELSE LET found == {r \in rows : r.data.id = Head(ids) /\ r.backup_id = id}
         IN (IF found = {} THEN <<>> ELSE <<(CHOOSE r \in found : TRUE).data>>)
                \o SelectRows(rows, id, Tail(ids))

\* lines 207-211
ChannelOfRow(data) ==
    [k \in ChannelKeys(data.type) |->
        IF k = "overwrites" THEN json_loads(data.overwrites) ELSE Get(data, k)]

\* lines 158-165: SELECT * FROM backups WHERE id = ? has a row
fetchone(d, id) == \E r \in d.backups : r.id = id

\* Database.get_backup on the tables: None when table backups has no row
select_backup(d, id) ==
    IF ~fetchone(d, id) THEN None
    ELSE LET result == CHOOSE r \in d.backups : r.id = id
             chans == SelectRows(d.guild_channels, id, json_loads(result.guild_channels))
         IN [channels |-> [i \in 1..Len(chans) |-> ChannelOfRow(chans[i])],
             roles |-> SelectRows(d.guild_roles, id, json_loads(result.guild_roles)),
             rules_channel |-> result.guild_rules_channel,
             public_updates_channel |-> result.guild_public_updates_channel]

\* DELETE FROM backups without a WHERE clause
delete_backup_all(d, id) == [d EXCEPT !.backups = {}]

\* Database.delete_backup: DELETE FROM backups WHERE id = ?
delete_backup(d, id) == [d EXCEPT !.backups = {r \in @ : r.id # id}]

\* what get_backup answers for every id of table backups
StoredBackups(d) == [id \in {r.id : r \in d.backups} |-> select_backup(d, id)]

\* value: what the call returned, <<>> standing for None
NoCall == [op |-> "none", id |-> "", before |-> EmptyStore, value |-> <<>>]

\* the snapshots explored: <<type of the voice-like channel, community mode, role icon>>
SnapshotCases ==
    {<<2, FALSE, None>>, <<2, TRUE, None>>, <<13, FALSE, None>>, <<13, TRUE, None>>,
     <<13, TRUE, IconKey>>}

\* a guild the snapshot was restored into before; it is not explored further
ThirdGuild == 3

\* the rows a complete restore into ThirdGuild left behind
EarlierRestore ==
    {Row(EveryoneId, ThirdGuild, BK, ThirdGuild), Row(RoleR, 91, BK, ThirdGuild),
     Row(CatK, 92, BK, ThirdGuild), Row(ChanX, 93, BK, ThirdGuild),
     Row(ChanV, 94, BK, ThirdGuild)}

\* the reference table at the start: empty, or (for one snapshot) holding the
\* rows of the earlier restore
InitialRefs(snap) ==
    {{}} \cup (IF snap = Snapshot(2, FALSE, None) THEN {EarlierRestore} ELSE {})

\* a snapshot with a second category and a channel in it
TwoCategories ==
    [Snapshot(2, FALSE, None) EXCEPT !.channels =
        @ \o <<CategoryDict(CatL, 1, 1, <<>>), TextDict(ChanY, 0, 1, 2, CatL, <<>>)>>]

\* a snapshot that also holds the managed role of the bot
WithBotRole ==
    [Snapshot(2, FALSE, None) EXCEPT !.roles = @ \o <<RoleDict(BotRoleId, 1, 2, None)>>]

StoredSnapshots ==
    {Snapshot(c[1], c[2], c[3]) : c \in SnapshotCases} \cup {TwoCategories, WithBotRole}

Init ==
    /\ \E snap \in StoredSnapshots :
         /\ backups = (BK :> snap)
         /\ db = insert_backup(EmptyStore, BK, snap).db
         /\ refs \in InitialRefs(snap)
         /\ \E src \in SourceShapes(snap) :
                guilds = (SourceGuild :> src) @@ (OtherGuild :> Foreign(TRUE))
    /\ nextId = FirstNewId
    /\ pc = "idle"
    /\ target = None /\ backup_id = "" /\ clear_guild = FALSE /\ command = "none"
    /\ ichans = {} /\ ichan = None
    /\ rules_id = None /\ updates_id = None
    /\ dlist = <<>> /\ di = 1 /\ ri = 1 /\ ci = 1
    /\ all_used_roles = <<>> /\ all_backup_channels = <<>>
    /\ category_data = <<>> /\ channel_data = <<>>
    /\ category_backup_success = FALSE /\ channels_backup_success = FALSE
    /\ log = <<>> /\ msgs = <<>> /\ runs = 0
    /\ visited = <<>>
    /\ hist = [target |-> None, backup_id |-> "", clear_guild |-> FALSE,
               outcome |-> "none", clean |-> FALSE]
    /\ ops = 0
    /\ track = [k \in RefKeys |-> Untracked]
    /\ raised = FALSE
    /\ last = NoCall

\* ------------------------------------------------------------ remote effects
RECURSIVE Without(_, _)
Without(s, x) ==
    IF s = <<>> THEN <<>>
    ELSE IF Head(s) = x THEN Without(Tail(s), x)
    ELSE <<Head(s)>> \o Without(Tail(s), x)

RECURSIVE WithoutId(_, _)
WithoutId(s, id) ==
    IF s = <<>> THEN <<>>
    ELSE IF Head(s).id = id THEN WithoutId(Tail(s), id)
    ELSE <<Head(s)>> \o WithoutId(Tail(s), id)

\* a deleted role disappears from every channel's overwrites
RemoveRole(gd, id) ==
    [gd EXCEPT !.roles = WithoutId(gd.roles, id),
               !.channels = [i \in 1..Len(gd.channels) |->
                   [gd.channels[i] EXCEPT !.overwrites = Without(@, id)]]]

\* the children of a deleted category become top-level channels
RemoveChannel(gd, id) ==
    [gd EXCEPT !.channels =
        LET rest == WithoutId(gd.channels, id) IN
        [i \in 1..Len(rest) |->
            [rest[i] EXCEPT !.category_id = IF @ = id THEN None ELSE @]]]

IsRolePhase(p) == p \in {"clear_roles", "cleanup_roles"}

\* one entry of the call log
Call(op, kind, id, snap, ok, extra) ==
    [op |-> op, kind |-> kind, id |-> id, snap |-> snap, ok |-> ok,
     phase |-> pc, extra |-> extra]

\* a snapshot resource reached by the loops, with the live counterpart found
Visit(kind, snap, live) == [kind |-> kind, snap |-> snap, live |-> live]

Message(text, item) == [text |-> text, item |-> item]

\* ----------------------------------------------------- backup_load_callback
\* set the position of the callback
Goto(p, g) ==
    /\ pc' = p
    /\ dlist' = IF IsRolePhase(p) THEN RoleIds(g)
                ELSE IF p \in {"clear_channels", "cleanup_channels"} THEN ChannelIds(g)
                ELSE <<>>
    /\ di' = 1 /\ ri' = 1 /\ ci' = 1

Outcome ==
    IF pc = "crashed" THEN "crashed"
    ELSE IF pc # "done" THEN "none"
    ELSE IF msgs = <<>> THEN "silent"
    ELSE msgs[Len(msgs)].text

\* the remote never deletes a managed role
RemoteRefusesDelete(g, kind, item) ==
    kind = "role" /\ HasRole(g, item) /\ get_role(g, item).kind \in {"bot", "integration"}

\* every remote call succeeded, but for deletions the remote always refuses
NoRemoteErrors ==
    \A i \in 1..Len(log) :
        \/ log[i].ok
        \/ log[i].op = "delete" /\ RemoteRefusesDelete(target, log[i].kind, log[i].id)

\* the previous restore, as seen when the next invocation starts
Summary ==
    IF target = None THEN hist
    ELSE [target |-> target, backup_id |-> backup_id, clear_guild |-> clear_guild,
          outcome |-> Outcome, clean |-> NoRemoteErrors]

Idle == pc \in {"idle", "done", "crashed"}

\* lines 97-100: check_dm_and_user_permissions fails
LoadDenied ==
    /\ Idle
    /\ hist' = Summary
    /\ msgs' = <<Message("no_permission", None)>>
    /\ log' = <<>> /\ visited' = <<>>
    /\ UNCHANGED dbvars
    /\ target' = None /\ backup_id' = "" /\ clear_guild' = FALSE /\ command' = "load"
    /\ ichans' = {} /\ ichan' = None
    /\ rules_id' = None /\ updates_id' = None
    /\ all_used_roles' = <<>> /\ all_backup_channels' = <<>>
    /\ category_data' = <<>> /\ channel_data' = <<>>
    /\ category_backup_success' = FALSE /\ channels_backup_success' = FALSE
    /\ pc' = "done" /\ dlist' = <<>> /\ di' = 1 /\ ri' = 1 /\ ci' = 1
    /\ UNCHANGED <<refs, backups, guilds, nextId, runs>>

\* lines 102-106: get_backup returns None
LoadNotFound(b) ==
    /\ Idle
    /\ ~HasBackup(b)
    /\ hist' = Summary
    /\ msgs' = <<Message("not_found", None)>>
    /\ log' = <<>> /\ visited' = <<>>
    /\ UNCHANGED dbvars
    /\ target' = None /\ backup_id' = "" /\ clear_guild' = FALSE /\ command' = "load"
    /\ ichans' = {} /\ ichan' = None
    /\ rules_id' = None /\ updates_id' = None
    /\ all_used_roles' = <<>> /\ all_backup_channels' = <<>>
    /\ category_data' = <<>> /\ channel_data' = <<>>
    /\ category_backup_success' = FALSE /\ channels_backup_success' = FALSE
    /\ pc' = "done" /\ dlist' = <<>> /\ di' = 1 /\ ri' = 1 /\ ci' = 1
    /\ UNCHANGED <<refs, backups, guilds, nextId, runs>>

\* lines 97-126: the checks pass; phase 0
Load(g, b, clear) ==
    /\ Idle
    /\ runs < MaxRuns
    /\ HasBackup(b)
    /\ runs' = runs + 1
    /\ hist' = Summary
    /\ target' = g /\ backup_id' = b /\ clear_guild' = clear /\ command' = "load"
    /\ ichans' = text_channels(g) /\ ichan' = None
    /\ log' = <<>> /\ msgs' = <<>> /\ visited' = <<>>
    /\ UNCHANGED dbvars
    /\ all_used_roles' = <<>> /\ all_backup_channels' = <<>>
    /\ category_data' = <<>> /\ channel_data' = <<>>
    /\ category_backup_success' = FALSE /\ channels_backup_success' = FALSE
    /\ UNCHANGED <<backups, guilds, nextId>>
    /\ LET gd == guilds[g]
           bk == get_backup(b)
           community == gd.rules_channel # None
           s1 == set_reference_id(refs, b, g, bk.rules_channel, gd.rules_channel)
           s2 == set_reference_id(s1.refs, b, g, bk.public_updates_channel,
                                  gd.public_updates_channel)
       IN
       /\ rules_id' = IF community THEN gd.rules_channel ELSE None
       /\ updates_id' = IF community THEN gd.public_updates_channel ELSE None
       /\ IF community /\ gd.public_updates_channel = None
          THEN \* guild.public_updates_channel.id raises AttributeError
               /\ Goto("crashed", g) /\ UNCHANGED refs
          ELSE IF community /\ bk.rules_channel # None
          THEN IF ~s1.ok THEN Goto("crashed", g) /\ refs' = s1.refs
               ELSE IF ~s2.ok THEN Goto("crashed", g) /\ refs' = s2.refs
               ELSE /\ refs' = s2.refs
                    /\ Goto(IF clear THEN "clear_roles" ELSE "roles", g)
          ELSE /\ UNCHANGED refs
               /\ Goto(IF clear THEN "clear_roles" ELSE "roles", g)

\* ---------------------------------------------------------------- delete_all
DeletePhases == {"clear_roles", "clear_channels", "cleanup_roles", "cleanup_channels"}

\* the orphan channel cleanup passes no check
DeleteChecksNoChannelFilter(item) ==
    CASE pc = "clear_roles" ->
            LET r == get_role(target, item) IN
            /\ item # target
            /\ ~is_bot_managed(r)
            /\ is_assignable(r)
            /\ ~is_integration(r)
      [] pc = "clear_channels" -> TRUE
      [] pc = "cleanup_roles" ->
            /\ item \notin SeqToSet(all_used_roles)
            /\ item # target
      [] pc = "cleanup_channels" -> TRUE

\* the checks passed to delete_all by each of its four callers
DeleteChecks(item) ==
    CASE pc = "clear_roles" ->
            LET r == get_role(target, item) IN
            /\ item # target
            /\ ~is_bot_managed(r)
            /\ is_assignable(r)
            /\ ~is_integration(r)
      [] pc = "clear_channels" -> TRUE
      [] pc = "cleanup_roles" ->
            /\ item \notin SeqToSet(all_used_roles)
            /\ item # target
      [] pc = "cleanup_channels" -> item \notin SeqToSet(all_backup_channels)

\* only the rules channel is exempted
ProtectedRulesOnly(item) == item = rules_id

\* lines 154-164: the item is skipped
Protected(item) == item \in {rules_id, updates_id}

\* the checks of the caller are not consulted
SkippedIfProtected(item) == Protected(item)

Skipped(item) == Protected(item) \/ ~DeleteChecks(item)

Deletable == {j \in di..Len(dlist) : ~Skipped(dlist[j])}
NextItem == CHOOSE j \in Deletable : \A k \in Deletable : j <= k

\* the result taken from the non-category group alone
overall_success_channels_only == channels_backup_success

\* line 553
overall_success == category_backup_success /\ channels_backup_success

\* the callback goes on whatever delete_all returned
AfterDeleteIgnoringFailure(failed) ==
    CASE pc = "clear_roles" -> "clear_channels"
      [] pc = "clear_channels" -> "roles"
      [] pc = "cleanup_roles" -> IF overall_success THEN "cleanup_channels" ELSE "message"
      [] pc = "cleanup_channels" -> "message"

\* where the callback continues after delete_all returned
AfterDelete(failed) ==
    CASE pc = "clear_roles" -> IF failed THEN "done" ELSE "clear_channels"
      [] pc = "clear_channels" -> IF failed THEN "done" ELSE "roles"
      [] pc = "cleanup_roles" -> IF overall_success THEN "cleanup_channels" ELSE "message"
      [] pc = "cleanup_channels" -> "message"

\* lines 166-174: del_reference, then item.delete, which succeeds or raises
DeleteItem ==
    /\ pc \in DeletePhases
    /\ Deletable # {}
    /\ LET item == dlist[NextItem]
           kind == IF IsRolePhase(pc) THEN "role" ELSE "channel"
       IN
       /\ refs' = del_reference_id(refs, backup_id, target, item)
       /\ \E ok \in BOOLEAN :
            /\ ok => ~RemoteRefusesDelete(target, kind, item)
            /\ log' = Append(log, Call("delete", kind, item, None, ok, None))
            /\ IF ok
               THEN /\ guilds' = [guilds EXCEPT ![target] =
                           IF kind = "role" THEN RemoveRole(@, item)
                           ELSE RemoveChannel(@, item)]
                    /\ di' = NextItem + 1
                    /\ UNCHANGED <<pc, dlist, ri, ci, msgs>>
               ELSE /\ UNCHANGED guilds
                    /\ Goto(AfterDelete(TRUE), target)
                    /\ msgs' = IF pc \in {"clear_roles", "clear_channels"}
                               THEN Append(msgs, Message("couldnt_delete", item))
                               ELSE msgs
    /\ UNCHANGED <<backups, nextId, locals, ichan, used, chandata, success, visited,
                   runs, hist, dbvars>>

\* line 176: the loop is over, delete_all returns None, None
DeleteReturn ==
    /\ pc \in DeletePhases
    /\ Deletable = {}
    /\ Goto(AfterDelete(FALSE), target)
    /\ UNCHANGED <<refs, backups, guilds, nextId, locals, ichan, used, chandata,
                   success, log, msgs, visited, runs, hist, dbvars>>

\* ------------------------------------------------------- phase 2: the roles
\* convert_guild_role_to_json of a live role: the canonical role record
convert_guild_role_to_json(g, id) ==
    IF ~HasRole(g, id) THEN EmptyDict
    ELSE LET r == get_role(g, id) IN
         RoleDict(r.id, r.name, RolePosition(g, id), r.display_icon)

sorted_roles(bk) ==
    sorted(bk.roles, [i \in 1..Len(bk.roles) |-> bk.roles[i].position])

\* lines 239-254: the icon file is opened (which raises ValueError, the mode
\* "b" names no read/write mode) unless del_display_icon is set
OpensIcon(g, backup_role) ==
    /\ guilds[g].role_icons
    /\ Get(backup_role, "display_icon") # None
    /\ asset_exists(Get(backup_role, "display_icon"))

\* lines 256-261 with del_display_icon = True
StripBackupIcon(backup_role) ==
    IF "display_icon" \in DOMAIN backup_role THEN Pop(backup_role, "display_icon")
    ELSE backup_role
StripCurrentIcon(raw_current_role) ==
    IF "display_role" \in DOMAIN raw_current_role
    THEN Pop(raw_current_role, "display_icon")
    ELSE raw_current_role

\* line 302 (after the ids were deleted)
RoleUnchanged(backup_role, raw_current_role) ==
    Pop(backup_role, "id") = Pop(raw_current_role, "id")

\* guild.create_role: the new role is placed right above the default role
InsertRole(gd, r) ==
    [gd EXCEPT !.roles = <<Head(@)>> \o <<r>> \o Tail(@)]

EditRole(gd, id, name) ==
    [gd EXCEPT !.roles = [i \in 1..Len(@) |->
        IF @[i].id = id THEN [@[i] EXCEPT !.name = name] ELSE @[i]]]

\* the created role is not remembered as used
UsedAfterCreateForgotten(roles, id) == roles

\* line 294: the created role is one of the roles the restore used
UsedAfterCreate(roles, id) == Append(roles, id)

\* a failed edit leaves the callback
AfterRoleEditFatal(ok) == IF ok THEN "roles" ELSE "crashed"

\* lines 325-332: the edit returned, or raised discord.HTTPException (continue)
AfterRoleEdit(ok) == "roles"

\* lines 208-332: one iteration of the loop over the snapshot's roles
RoleStep ==
    /\ pc = "roles"
    /\ ri <= Len(get_backup(backup_id).roles)
    /\ LET g == target
           backup_role_data == sorted_roles(get_backup(backup_id))[ri]
           everyone == backup_role_data.position = 0
           s0 == IF everyone
                 THEN set_reference_id(refs, backup_id, g, backup_role_data.id, g)
                 ELSE [refs |-> refs, ok |-> TRUE]
           current_id == IF everyone THEN g
                         ELSE get_reference_id(refs, backup_id, g, backup_role_data.id)
           current_role == HasRole(g, current_id)
           raw_current_role == StripCurrentIcon(convert_guild_role_to_json(g, current_id))
           backup_role == StripBackupIcon(backup_role_data)
       IN
       /\ visited' = Append(visited, Visit("role", backup_role_data.id,
                                           IF current_role THEN current_id ELSE None))
       /\ IF ~s0.ok
          THEN /\ pc' = "crashed" /\ refs' = s0.refs
               /\ UNCHANGED <<guilds, nextId, loopvars, used, log>>
          ELSE IF current_role /\ IsOwnBotRole(get_role(g, current_id))
          THEN /\ ri' = ri + 1 /\ refs' = s0.refs
               /\ UNCHANGED <<guilds, nextId, pc, dlist, di, ci, used, log>>
          ELSE IF OpensIcon(g, backup_role_data)
          THEN /\ pc' = "crashed" /\ refs' = s0.refs
               /\ UNCHANGED <<guilds, nextId, loopvars, used, log>>
          ELSE IF ~current_role
          THEN \E ok \in BOOLEAN :
                 LET s1 == set_reference_id(s0.refs, backup_id, g, backup_role_data.id, nextId)
                 IN
                 /\ log' = Append(log, Call("create", "role", IF ok THEN nextId ELSE None,
                                            backup_role_data.id, ok, None))
                 /\ IF ok
                    THEN /\ guilds' = [guilds EXCEPT ![g] =
                                InsertRole(@, Role(nextId, backup_role_data.name, "normal", None))]
                         /\ nextId' = nextId + 1
                         /\ refs' = s1.refs
                         /\ IF s1.ok
                            THEN /\ all_used_roles' = UsedAfterCreate(all_used_roles, nextId)
                                 /\ ri' = ri + 1
                                 /\ UNCHANGED pc
                            ELSE /\ pc' = "crashed"
                                 /\ UNCHANGED <<all_used_roles, ri>>
                    ELSE \* discord.HTTPException leaves the callback
                         /\ pc' = "crashed" /\ refs' = s0.refs
                         /\ UNCHANGED <<guilds, nextId, all_used_roles, ri>>
                 /\ UNCHANGED <<dlist, di, ci, all_backup_channels>>
          ELSE /\ all_used_roles' = Append(all_used_roles, current_id)
               /\ refs' = s0.refs
               /\ UNCHANGED <<nextId, dlist, di, ci, all_backup_channels>>
               /\ IF RoleUnchanged(backup_role, raw_current_role)
                  THEN ri' = ri + 1 /\ UNCHANGED <<pc, guilds, log>>
                  ELSE \E ok \in BOOLEAN :
                         /\ log' = Append(log, Call("edit", "role", current_id,
                                                    backup_role_data.id, ok, None))
                         /\ guilds' = IF ok
                                      THEN [guilds EXCEPT ![g] =
                                               EditRole(@, current_id, backup_role_data.name)]
                                      ELSE guilds
                         /\ pc' = AfterRoleEdit(ok)
                         /\ ri' = IF AfterRoleEdit(ok) = "roles" THEN ri + 1 ELSE ri
    /\ UNCHANGED <<backups, locals, ichan, chandata, success, msgs, runs, hist, dbvars>>

\* --------------------------------------------------- phase 3: the channels
\* convert_guild_channel_to_json of a live channel
convert_guild_channel_to_json(ch) ==
    IF ch.type \in TextLike
    THEN TextDict(ch.id, ch.type, ch.name, ch.position, ch.category_id, ch.overwrites)
    ELSE IF ch.type \in VoiceLike
    THEN VoiceDict(ch.id, ch.type, ch.name, ch.position, ch.category_id,
                   ch.overwrites, ch.user_limit)
    ELSE CategoryDict(ch.id, ch.name, ch.position, ch.overwrites)

\* line 364
IsCategoryData(backup_channel) == backup_channel.type = 4

\* lines 347-362: compare_data of one snapshot channel
CompareData(g, backup_channel_data) ==
    [current_channel |-> IF HasChannel(g, backup_channel_data.id)
                         THEN convert_guild_channel_to_json(get_channel(g, backup_channel_data.id))
                         ELSE EmptyDict,
     backup_channel |-> backup_channel_data,
     action |-> IF HasChannel(g, backup_channel_data.id) THEN "edit" ELSE "create"]

RECURSIVE SplitData(_, _, _)
SplitData(g, chans, wantCategory) ==
    IF chans = <<>> THEN <<>>
    ELSE (IF IsCategoryData(Head(chans)) = wantCategory
          THEN <<CompareData(g, Head(chans))>> ELSE <<>>)
         \o SplitData(g, Tail(chans), wantCategory)

\* the two groups handled the other way round
GroupOrderSwapped == <<"channels", "categories">>

\* lines 550-551: the order in which the two groups are handled
GroupOrder == <<"categories", "channels">>
GroupPhases == {"categories", "channels"}
GroupData(p) == IF p = "categories" THEN category_data ELSE channel_data
NextGroup(p) == IF p = GroupOrder[1] THEN GroupOrder[2] ELSE "cleanup_roles"

\* lines 341-368
BeginChannels ==
    /\ pc = "roles"
    /\ ri > Len(get_backup(backup_id).roles)
    /\ category_data' = SplitData(target, get_backup(backup_id).channels, TRUE)
    /\ channel_data' = SplitData(target, get_backup(backup_id).channels, FALSE)
    /\ Goto(GroupOrder[1], target)
    /\ UNCHANGED <<refs, backups, guilds, nextId, locals, ichan, used, success, log,
                   msgs, visited, runs, hist, dbvars>>

\* lines 384-386
sorted_data(data) ==
    sorted(data, [i \in 1..Len(data) |-> data[i].backup_channel.position])

\* every target passes, live or not
target_object_unchecked(g, target_id) == TRUE

\* lines 416-420: guild.get_member(target_id) or guild.get_role(target_id)
target_object(g, target_id) == HasMember(g, target_id) \/ HasRole(g, target_id)

\* lines 412-430: the overwrites dict, keyed by the live member or role
RECURSIVE ResolveOverwrites(_, _, _, _)
ResolveOverwrites(rf, b, g, ows) ==
    IF ows = <<>> THEN <<>>
    ELSE LET target_id == get_reference_id(rf, b, g, Head(ows))
             rest == ResolveOverwrites(rf, b, g, Tail(ows))
         IN IF target_object(g, target_id)
            THEN <<target_id>> \o Without(rest, target_id)
            ELSE rest

\* lines 392-398
ReferenceCategory(rf, b, g, backup_channel) ==
    LET reference_category_id == get_reference_id(rf, b, g, Get(backup_channel, "category_id"))
    IN IF reference_category_id # None /\ HasChannel(g, reference_category_id)
       THEN reference_category_id ELSE None

\* lines 448-452
FixCategory(rf, b, g, d, current_channel, isBackup) ==
    IF Get(current_channel, "type") = 4 THEN Pop(d, "category_id")
    ELSE IF isBackup
    THEN Put(d, "category_id", get_reference_id(rf, b, g, Get(d, "category_id")))
    ELSE d

\* lines 455-459
ForceLimit(backup_channel, reference_type) ==
    IF backup_channel.type = 13 /\ reference_type = 2
    THEN Put(backup_channel, "user_limit", 0)
    ELSE backup_channel

PopIdType(d) == Pop(Pop(d, "id"), "type")

\* lines 464-483: TRUE when the channel is left alone
ChannelUnchanged(current_channel, backup_channel, overwrites) ==
    \/ current_channel = backup_channel
    \/ /\ overwrites = <<>>
       /\ Pop(current_channel, "overwrites") = Pop(backup_channel, "overwrites")

\* lines 520-531: the channel type of the second attempt; None when neither
\* branch assigns channel_type (UnboundLocalError)
FallbackType(type) ==
    IF type \in TextLike THEN 0
    ELSE IF type \in FallbackVoice THEN 2
    ELSE None

FallbackDict(backup_channel) ==
    IF backup_channel.type \in FallbackVoice /\ backup_channel.type \notin TextLike
    THEN Put(backup_channel, "user_limit", 0)
    ELSE backup_channel

\* reference_channel.edit(**backup_channel, category=..., overwrites=...)
EditChannel(gd, id, backup_channel, reference_category, overwrites) ==
    [gd EXCEPT !.channels = [i \in 1..Len(@) |->
        IF @[i].id = id
        THEN [@[i] EXCEPT !.name = backup_channel.name,
                          !.position = backup_channel.position,
                          !.category_id = reference_category,
                          !.overwrites = overwrites,
                          !.user_limit = IF "user_limit" \in DOMAIN backup_channel
                                         THEN backup_channel.user_limit ELSE @]
        ELSE @[i]]]

\* guild._create_channel(**backup_channel, category=..., channel_type=..., overwrites=...)
CreateChannel(gd, id, type, backup_channel, reference_category, overwrites) ==
    [gd EXCEPT !.channels = Append(@,
        Channel(id, type, backup_channel.name, backup_channel.position,
                reference_category, overwrites,
                IF type \in VoiceLike THEN Get(backup_channel, "user_limit") ELSE None))]

CallArgs(type, backup_channel, reference_category, overwrites) ==
    [type |-> type, user_limit |-> Get(backup_channel, "user_limit"),
     category |-> reference_category, overwrites |-> overwrites]

\* lines 387-545: one iteration of the loop of handle_channels
ChannelStep ==
    /\ pc \in GroupPhases
    /\ ci <= Len(GroupData(pc))
    /\ LET g == target
           b == backup_id
           compare_channel_data == sorted_data(GroupData(pc))[ci]
           action == compare_channel_data.action
           backup0 == compare_channel_data.backup_channel
           reference_category == ReferenceCategory(refs, b, g, backup0)
           reference_channel_id == get_reference_id(refs, b, g, backup0.id)
           reference_channel == HasChannel(g, reference_channel_id)
           current0 == IF reference_channel
                       THEN convert_guild_channel_to_json(get_channel(g, reference_channel_id))
                       ELSE compare_channel_data.current_channel
           touched == IF reference_channel
                      THEN Append(all_backup_channels, reference_channel_id)
                      ELSE all_backup_channels
           overwrites == ResolveOverwrites(refs, b, g, backup0.overwrites)
           current1 == FixCategory(refs, b, g, current0, current0, FALSE)
           backup1 == FixCategory(refs, b, g, backup0, current0, TRUE)
       IN
       /\ visited' = Append(visited, Visit("channel", backup0.id,
                              IF reference_channel THEN reference_channel_id ELSE None))
       /\ IF action = "edit" \/ reference_channel
          THEN IF ~reference_channel /\ backup1.type = 13
               THEN \* reference_channel.type on None raises AttributeError
                    /\ pc' = "crashed"
                    /\ all_backup_channels' = touched
                    /\ UNCHANGED <<refs, guilds, nextId, loopvars, success, log>>
               ELSE LET backup2 == PopIdType(
                            IF reference_channel
                            THEN ForceLimit(backup1, get_channel(g, reference_channel_id).type)
                            ELSE backup1)
                        current2 == PopIdType(current1)
                    IN
                    IF ChannelUnchanged(current2, backup2, overwrites)
                    THEN /\ ci' = ci + 1
                         /\ all_backup_channels' = touched
                         /\ UNCHANGED <<refs, guilds, nextId, pc, dlist, di, ri, success, log>>
                    ELSE IF ~reference_channel
                    THEN \* None.edit raises, and so does the handler's reference_channel.name
                         /\ pc' = "crashed"
                         /\ all_backup_channels' = touched
                         /\ UNCHANGED <<refs, guilds, nextId, loopvars, success, log>>
                    ELSE \E ok \in BOOLEAN :
                           /\ log' = Append(log, Call("edit", "channel", reference_channel_id,
                                       backup0.id, ok,
                                       CallArgs(get_channel(g, reference_channel_id).type,
                                                Pop(backup2, "overwrites"),
                                                reference_category, overwrites)))
                           /\ all_backup_channels' = touched
                           /\ UNCHANGED <<refs, nextId>>
                           /\ IF ok
                              THEN /\ guilds' = [guilds EXCEPT ![g] =
                                          EditChannel(@, reference_channel_id,
                                                      Pop(backup2, "overwrites"),
                                                      reference_category, overwrites)]
                                   /\ ci' = ci + 1
                                   /\ UNCHANGED <<pc, dlist, di, ri, success>>
                              ELSE \* line 500: handle_channels returns False
                                   /\ UNCHANGED guilds
                                   /\ category_backup_success' =
                                          IF pc = "categories" THEN FALSE
                                          ELSE category_backup_success
                                   /\ channels_backup_success' =
                                          IF pc = "channels" THEN FALSE
                                          ELSE channels_backup_success
                                   /\ Goto(NextGroup(pc), g)
          ELSE \E first \in BOOLEAN, second \in BOOLEAN :
                 LET backup2 == Pop(backup1, "overwrites")
                     fallback == FallbackType(backup2.type)
                     backup3 == FallbackDict(backup2)
                     s1 == set_reference_id(refs, b, g, backup0.id, nextId)
                     call1 == Call("create", "channel", IF first THEN nextId ELSE None,
                                   backup0.id, first,
                                   CallArgs(backup2.type, backup2, reference_category, overwrites))
                     call2 == Call("create", "channel", IF second THEN nextId ELSE None,
                                   backup0.id, second,
                                   CallArgs(fallback, backup3, reference_category, overwrites))
                     created == first \/ (fallback # None /\ second)
                 IN
                 /\ first => second
                 /\ (~first /\ fallback = None) => second
                 /\ log' = IF first THEN Append(log, call1)
                           ELSE IF fallback = None THEN Append(log, call1)
                           ELSE log \o <<call1, call2>>
                 /\ UNCHANGED success
                 /\ IF created
                    THEN /\ guilds' = [guilds EXCEPT ![g] =
                                IF first
                                THEN CreateChannel(@, nextId, backup2.type, backup2,
                                                   reference_category, overwrites)
                                ELSE CreateChannel(@, nextId, fallback, backup3,
                                                   reference_category, overwrites)]
                         /\ nextId' = nextId + 1
                         /\ all_backup_channels' = Append(touched, nextId)
                         /\ refs' = s1.refs
                         /\ IF s1.ok
                            THEN ci' = ci + 1 /\ UNCHANGED <<pc, dlist, di, ri>>
                            ELSE pc' = "crashed" /\ UNCHANGED loopvars
                    ELSE \* UnboundLocalError, or the second attempt raised as well
                         /\ pc' = "crashed"
                         /\ all_backup_channels' = touched
                         /\ UNCHANGED <<refs, guilds, nextId, loopvars>>
    /\ UNCHANGED <<backups, locals, ichan, all_used_roles, chandata, msgs, runs, hist,
                   dbvars>>

\* line 547: handle_channels returns True
HandleChannelsReturn ==
    /\ pc \in GroupPhases
    /\ ci > Len(GroupData(pc))
    /\ category_backup_success' = IF pc = "categories" THEN TRUE ELSE category_backup_success
    /\ channels_backup_success' = IF pc = "channels" THEN TRUE ELSE channels_backup_success
    /\ Goto(NextGroup(pc), target)
    /\ UNCHANGED <<refs, backups, guilds, nextId, locals, ichan, used, chandata, log,
                   msgs, visited, runs, hist, dbvars>>

\* lines 569-587: the message that closes the invocation; ch is the channel
\* the command was issued in
Finish(ch) ==
    /\ pc = "message"
    /\ ch \in ichans
    /\ ichan' = ch
    /\ LET message == IF overall_success THEN "Loaded Backup." ELSE "Couldn't load Backup."
       IN
       IF HasChannel(target, ch)
       THEN msgs' = Append(msgs, Message(message, None))
       ELSE \* the first text channel that does not answer Forbidden gets it
            \E sent \in BOOLEAN :
               /\ sent => text_channels(target) # {}
               /\ msgs' = IF sent THEN Append(msgs, Message(message, None)) ELSE msgs
    /\ pc' = "done"
    /\ UNCHANGED <<refs, backups, guilds, nextId, locals, loopvars, used, chandata,
                   success, log, visited, runs, hist, dbvars>>

\* --------------------------------------------------- backup_delete_callback
\* what a finished backup_load_callback leaves behind is dropped
DropLoadState ==
    /\ hist' = Summary
    /\ target' = None /\ clear_guild' = FALSE /\ command' = "delete"
    /\ ichans' = {} /\ ichan' = None
    /\ rules_id' = None /\ updates_id' = None
    /\ all_used_roles' = <<>> /\ all_backup_channels' = <<>>
    /\ category_data' = <<>> /\ channel_data' = <<>>
    /\ category_backup_success' = FALSE /\ channels_backup_success' = FALSE
    /\ dlist' = <<>> /\ di' = 1 /\ ri' = 1 /\ ci' = 1
    /\ log' = <<>> /\ visited' = <<>>
    /\ UNCHANGED <<guilds, nextId, runs, ops, last>>

\* lines 598-599: check_dm_and_user_permissions fails
DeleteDenied ==
    /\ Idle
    /\ DropLoadState
    /\ backup_id' = ""
    /\ msgs' = <<Message("no_permission", None)>>
    /\ pc' = "done"
    /\ UNCHANGED <<refs, backups, db, track, raised>>

\* lines 601-616: /backup delete
BackupDelete(b) ==
    /\ Idle
    /\ DropLoadState
    /\ backup_id' = b
    /\ raised' = FALSE
    /\ IF ~HasBackup(b)
       THEN \* line 603: guild_backup is None, guild_backup.id raises AttributeError
            /\ pc' = "crashed" /\ msgs' = <<>>
            /\ UNCHANGED <<refs, backups, db, track>>
       ELSE \* the Backup that get_backup built has id = backup_id, never None:
            \* the message of lines 604-608 is never sent
            /\ db' = delete_backup(db, b)
            /\ backups' = StoredBackups(db')
            /\ refs' = del_references_of_backup(refs, b)
            /\ track' = [k \in RefKeys |->   \* val: what the key resolved to before
                            IF k[1] = b
                            THEN [st |-> "del", val |-> get_reference_id(refs, k[1], k[2], k[3])]
                            ELSE track[k]]
            /\ msgs' = <<Message("deleted", None)>>
            /\ pc' = "done"

\* ------------------------------------------- direct calls of the Database
\* Database.set_reference_id
RefSet(b, g, old, new) ==
    /\ ops < MaxOps
    /\ LET s == set_reference_id(refs, b, g, old, new)
           k == <<b, g, old>>
       IN
       /\ refs' = s.refs
       /\ raised' = ~s.ok
       /\ track' = IF old = new THEN track
                   ELSE [track EXCEPT ![k] = [st |-> "set", val |-> new]]
    /\ ops' = ops + 1
    /\ UNCHANGED <<backups, guilds, nextId, pc, locals, ichan, loopvars, used, chandata,
                   success, log, msgs, visited, runs, hist, storevars>>

\* Database.del_reference_id
RefDel(b, g, old) ==
    /\ ops < MaxOps
    /\ refs' = del_reference_id(refs, b, g, old)
    /\ raised' = FALSE
    /\ track' = [track EXCEPT ![<<b, g, old>>] = [st |-> "del", val |-> None]]
    /\ ops' = ops + 1
    /\ UNCHANGED <<backups, guilds, nextId, pc, locals, ichan, loopvars, used, chandata,
                   success, log, msgs, visited, runs, hist, storevars>>

\* Database.del_references_of_backup
RefDelAll(b) ==
    /\ ops < MaxOps
    /\ refs' = del_references_of_backup(refs, b)
    /\ raised' = FALSE
    /\ track' = [k \in RefKeys |->
                    IF k[1] = b THEN [st |-> "del", val |-> None] ELSE track[k]]
    /\ ops' = ops + 1
    /\ UNCHANGED <<backups, guilds, nextId, pc, locals, ichan, loopvars, used, chandata,
                   success, log, msgs, visited, runs, hist, storevars>>

InitRef ==
    /\ Init
    /\ backups = (BK :> Snapshot(2, FALSE, None))
    /\ guilds[SourceGuild] = Pristine(backups[BK])
    /\ refs = {}

NextRef ==
    \/ \E b \in RefBackups, g \in Guilds, old \in RefOldIds, new \in RefNewIds :
          RefSet(b, g, old, new)
    \/ \E b \in RefBackups, g \in Guilds, old \in RefOldIds : RefDel(b, g, old)
    \/ \E b \in RefBackups : RefDelAll(b)
    \/ \E b \in RefBackups : BackupDelete(b)

SpecRef == InitRef /\ [][NextRef]_vars

\* ------------------------------------ direct calls of the snapshot methods
\* the Backup objects handed to insert_backup
StoreContents ==
    {Snapshot(2, FALSE, None), Snapshot(13, FALSE, None), Snapshot(13, TRUE, None)}

idle == <<refs, guilds, nextId, pc, locals, ichan, loopvars, used, chandata, success,
          log, msgs, visited, runs, hist, ops, track>>

\* Database.insert_backup
StoreInsert(id, snap) ==
    /\ LET r == insert_backup(db, id, snap) IN
       /\ db' = r.db
       /\ raised' = ~r.ok
    /\ last' = [op |-> "insert", id |-> id, before |-> db, value |-> <<>>]
    /\ backups' = StoredBackups(db')
    /\ UNCHANGED idle

\* Database.delete_backup
StoreDelete(id) ==
    /\ db' = delete_backup(db, id)
    /\ raised' = FALSE
    /\ last' = [op |-> "delete", id |-> id, before |-> db, value |-> <<>>]
    /\ backups' = StoredBackups(db')
    /\ UNCHANGED idle

\* Database.get_backup
StoreGet(id) ==
    /\ raised' = FALSE
    /\ last' = [op |-> "get", id |-> id, before |-> db,
                value |-> IF fetchone(db, id) THEN <<select_backup(db, id)>> ELSE <<>>]
    /\ UNCHANGED <<db, backups>>
    /\ UNCHANGED idle

NextStore ==
    \/ \E id \in BackupIds, snap \in StoreContents : StoreInsert(id, snap)
    \/ \E id \in BackupIds : StoreDelete(id)
    \/ \E id \in BackupIds : StoreGet(id)

SpecStore == InitRef /\ [][NextStore]_vars

\* the snapshots get_backup answers with are the ones the tables hold
StoreView == backups = StoredBackups(db)

Next ==
    \/ LoadDenied
    \/ \E b \in BackupIds : LoadNotFound(b)
    \/ \E g \in Guilds, b \in BackupIds, clear \in BOOLEAN : Load(g, b, clear)
    \/ DeleteItem
    \/ DeleteReturn
    \/ RoleStep
    \/ BeginChannels
    \/ ChannelStep
    \/ HandleChannelsReturn
    \/ \E ch \in ichans : Finish(ch)
    \/ DeleteDenied
    \/ \E b \in BackupIds : BackupDelete(b)

Spec == Init /\ [][Next]_vars

\* ================================================================== claims
LogIdx == 1..Len(log)
Restoring == target # None
Ended == Restoring /\ pc \in {"done", "crashed"}

SnapChannels == backups[backup_id].channels
SnapChannelIds == {SnapChannels[i].id : i \in 1..Len(SnapChannels)}
SnapChannel(id) == SnapChannels[CHOOSE i \in 1..Len(SnapChannels) : SnapChannels[i].id = id]
IsChannelCall(e) == e.kind = "channel" /\ e.op \in {"create", "edit"}
ForCategory(e) == SnapChannel(e.snap).type = 4
Resolve(id) == get_reference_id(refs, backup_id, target, id)

\* C1: every create or edit call issued for a category-type snapshot channel
\* comes before the first create or edit call issued for a non-category one.
C1_CategoriesFirst ==
    \A i, j \in LogIdx :
        (i < j /\ IsChannelCall(log[i]) /\ IsChannelCall(log[j]) /\ ~ForCategory(log[i]))
            => ~ForCategory(log[j])

C1_Witness ==
    /\ pc = "done"
    /\ Outcome = "Loaded Backup."
    /\ \E i, j \in LogIdx :
         /\ IsChannelCall(log[i]) /\ ForCategory(log[i]) /\ log[i].ok
         /\ IsChannelCall(log[j]) /\ ~ForCategory(log[j]) /\ log[j].ok
         /\ log[i].op = "create" /\ log[j].op = "edit"

\* C2: the default role of the target and, when configured, its rules and
\* updates channels are never passed to a delete operation, in the clear or
\* in the orphan cleanup, whatever the flags and remote errors.
C2_ProtectedNeverDeleted ==
    Restoring =>
        \A i \in LogIdx :
            log[i].op = "delete" =>
                /\ log[i].id # target
                /\ log[i].id \notin ({guilds[target].rules_channel,
                                      guilds[target].public_updates_channel} \ {None})

C2_Witness ==
    /\ pc = "done"
    /\ clear_guild
    /\ guilds[target].rules_channel # None
    /\ \E i, j \in LogIdx :
         /\ log[i].op = "delete" /\ log[i].kind = "channel" /\ log[i].phase = "clear_channels"
         /\ log[j].op = "delete" /\ log[j].kind = "role" /\ log[j].phase = "cleanup_roles"

\* C3: a restore without clear that succeeded, run again on the same snapshot
\* and target without remote errors, issues no edit call at all.
C3_SecondRunNoEdits ==
    (/\ pc = "done" /\ Restoring
     /\ Outcome = "Loaded Backup." /\ ~clear_guild /\ NoRemoteErrors
     /\ hist.outcome = "Loaded Backup." /\ ~hist.clear_guild /\ hist.clean
     /\ hist.target = target /\ hist.backup_id = backup_id)
        => \A i \in LogIdx : log[i].op # "edit"

\* C4: in one scope, after set(old, new) with old # new, resolve(old) is new
\* until a later set or delete of old in that scope; after a delete, and for
\* an id that never had an entry, resolve(old) is old.
C4_ReferenceStable ==
    \A k \in RefKeys :
        /\ track[k].st = "set" => get_reference_id(refs, k[1], k[2], k[3]) = track[k].val
        /\ track[k].st \in {"none", "del"} => get_reference_id(refs, k[1], k[2], k[3]) = k[3]

\* C5: the same snapshot tracks independent mappings per target: the set of
\* an old id in scope (S, T2) succeeds whatever entry scope (S, T1) holds for
\* it, and resolve then returns, in each scope, the id that was set there.
C5_IndependentScopes ==
    /\ ~raised
    /\ \A b \in RefBackups, old \in RefOldIds :
          \A g1, g2 \in Guilds :
             (g1 # g2 /\ track[<<b, g1, old>>].st = "set" /\ track[<<b, g2, old>>].st = "set")
                => /\ get_reference_id(refs, b, g1, old) = track[<<b, g1, old>>].val
                   /\ get_reference_id(refs, b, g2, old) = track[<<b, g2, old>>].val

C7_EditFailureAborts ==
    \A i \in LogIdx :
        (log[i].op = "edit" /\ log[i].kind = "channel" /\ ~log[i].ok)
            => /\ i = Len(log)
               /\ pc = "done" => Outcome = "Couldn't load Backup."

\* C8: a restore that passed the checks ends with exactly one message to the
\* caller, whatever remote errors were raised.
C8_ExactlyOneMessage ==
    Ended => Len(msgs) = 1

\* C9: when the remote rejects the exact type of a channel to create, a
\* text-like type is created as plain text and a voice-like type (voice or
\* stage) as plain voice with user_limit 0, and the reference is stored.
FirstAttemptRejected(i) ==
    /\ log[i].op = "create" /\ log[i].kind = "channel" /\ ~log[i].ok
    /\ ~(i > 1 /\ log[i - 1].op = "create" /\ log[i - 1].kind = "channel"
               /\ ~log[i - 1].ok /\ log[i - 1].snap = log[i].snap)

C9_TypeFallback ==
    \A i \in LogIdx :
        (FirstAttemptRejected(i)
         /\ SnapChannel(log[i].snap).type \in TextLike \cup VoiceLike)
            => /\ i < Len(log)
               /\ log[i + 1].op = "create" /\ log[i + 1].snap = log[i].snap
               /\ log[i + 1].extra.type =
                      (IF SnapChannel(log[i].snap).type \in TextLike THEN 0 ELSE 2)
               /\ SnapChannel(log[i].snap).type \in VoiceLike
                      => log[i + 1].extra.user_limit = 0
               /\ log[i + 1].ok => Resolve(log[i].snap) = log[i + 1].id

\* C10: a restore without remote errors issues exactly one create call for
\* every snapshot channel that does not resolve to a live channel, and the
\* snapshot id then resolves to the channel created.
Visits(id) == {i \in 1..Len(visited) : visited[i].kind = "channel" /\ visited[i].snap = id}
NeedsCreate(id) ==
    IF Visits(id) # {} THEN \E i \in Visits(id) : visited[i].live = None
    ELSE ~HasChannel(target, Resolve(id))
CreatesFor(id) ==
    {i \in LogIdx : log[i].op = "create" /\ log[i].kind = "channel" /\ log[i].snap = id}

C10_CreateAndRegister ==
    (Ended /\ NoRemoteErrors) =>
        \A id \in SnapChannelIds :
            NeedsCreate(id) =>
                /\ Cardinality(CreatesFor(id)) = 1
                /\ \A i \in CreatesFor(id) : Resolve(id) = log[i].id

\* C11: in the clear, a delete call that raises leaves the reference table of
\* the restore's scope as it was before that delete was attempted.
ScopeRefs(rf) == {r \in rf : r.backup_id = backup_id /\ r.guild_id = target}
ClearDeleteRaised ==
    /\ pc \in {"clear_roles", "clear_channels"}
    /\ Len(log') = Len(log) + 1
    /\ log'[Len(log')].op = "delete" /\ ~log'[Len(log')].ok

C11_FailedDeleteKeepsRefs ==
    [][ClearDeleteRaised => ScopeRefs(refs') = ScopeRefs(refs)]_vars

\* C12: a remote error raised by a role create, a role edit or a fallback
\* channel create does not end the restore: the restore goes on and still
\* ends with its message.
IsFallbackCreate(i) ==
    /\ i > 1
    /\ log[i].op = "create" /\ log[i].kind = "channel"
    /\ log[i - 1].op = "create" /\ log[i - 1].kind = "channel"
    /\ ~log[i - 1].ok /\ log[i - 1].snap = log[i].snap
AbsorbedFailure(i) ==
    /\ ~log[i].ok
    /\ \/ log[i].kind = "role" /\ log[i].op \in {"create", "edit"}
       \/ IsFallbackCreate(i)

C12_RoleAndFallbackErrorsAbsorbed ==
    \A i \in LogIdx :
        AbsorbedFailure(i) =>
            /\ ~(pc = "crashed" /\ i = Len(log))
            /\ pc = "done" => Len(msgs) = 1

\* C13: a role edit that raises a remote error is skipped: the loop goes on
\* with the next snapshot role, the role stays in use, and the restore can
\* still reach Phase 3 and the success result.
RoleEditRaised ==
    /\ pc = "roles"
    /\ Len(log') = Len(log) + 1
    /\ log'[Len(log')].op = "edit" /\ log'[Len(log')].kind = "role"
    /\ ~log'[Len(log')].ok

C13_RoleEditFailureSkipped ==
    [][RoleEditRaised =>
          /\ pc' = "roles" /\ ri' = ri + 1
          /\ all_used_roles' = Append(all_used_roles, log'[Len(log')].id)
          /\ msgs' = msgs /\ guilds' = guilds]_vars

C13_Witness ==
    /\ pc = "done"
    /\ Outcome = "Loaded Backup."
    /\ \E i, j, k \in LogIdx :
         /\ i < j /\ j < k
         /\ log[i].op = "edit" /\ log[i].kind = "role" /\ ~log[i].ok
         /\ log[j].kind = "role" /\ log[j].op \in {"edit", "create"} /\ log[j].ok
         /\ log[k].kind = "channel" /\ log[k].op \in {"edit", "create"} /\ log[k].ok

\* C14: a restore that went through Phase 3 has the success result exactly
\* when both channel groups were processed to the end with no channel edit
\* raising; the message it sends states that result.
ReachedResult ==
    /\ Restoring
    /\ \/ pc = "message"
       \/ pc = "done" /\ \A i \in 1..Len(msgs) : msgs[i].text # "couldnt_delete"
ChannelEditFailed == \E i \in LogIdx : log[i].op = "edit" /\ log[i].kind = "channel" /\ ~log[i].ok
AllChannelsProcessed == \A id \in SnapChannelIds : Visits(id) # {}

C14_SuccessIffBothGroups ==
    ReachedResult =>
        /\ overall_success <=> (AllChannelsProcessed /\ ~ChannelEditFailed)
        /\ \A i \in 1..Len(msgs) :
              msgs[i].text = (IF AllChannelsProcessed /\ ~ChannelEditFailed
                              THEN "Loaded Backup." ELSE "Couldn't load Backup.")

C14_Witness ==
    /\ pc = "done"
    /\ msgs = <<Message("Couldn't load Backup.", None)>>
    /\ category_backup_success /\ ~channels_backup_success
    /\ ChannelEditFailed
    /\ \E i \in LogIdx : log[i].kind = "channel" /\ log[i].op = "create" /\ log[i].ok

\* C15: when both channel groups succeeded, the restore ends with every live
\* channel being one created or matched in Phase 3 or the target's rules or
\* updates channel: every other channel was deleted before success is reported.
LiveChannelIds == SeqToSet(ChannelIds(target))
LiveRoleIds == SeqToSet(RoleIds(target))

C15_OrphanChannelsDeleted ==
    (ReachedResult /\ pc = "done" /\ overall_success) =>
        \A id \in LiveChannelIds :
            \/ id \in SeqToSet(all_backup_channels)
            \/ id \in {guilds[target].rules_channel, guilds[target].public_updates_channel}

\* C16: a restore that passed Phase 2 ends with every live role deleted that
\* was neither created nor matched in Phase 2 and is not the default role;
\* the deletion of one of them raising does not keep the others (here: the
\* ones the remote would delete) from being deleted.
DeleteRaisedFor(id) ==
    \E i \in LogIdx : log[i].op = "delete" /\ log[i].kind = "role"
                       /\ log[i].id = id /\ ~log[i].ok

C16_OrphanRolesDeleted ==
    (ReachedResult /\ pc = "done") =>
        \A id \in LiveRoleIds :
            \/ id \in SeqToSet(all_used_roles)
            \/ id = target
            \/ RemoteRefusesDelete(target, "role", id)
            \/ DeleteRaisedFor(id)

\* C17: once Phase 2 handled the snapshot's position-0 role, that role's id
\* resolves, in the restore's scope, to the target's own default role,
\* whatever entries exist for other targets; the default role is never created.
EveryoneHandled ==
    /\ Restoring
    /\ \E i \in 1..Len(visited) : visited[i].kind = "role" /\ visited[i].snap = EveryoneId

C17_EveryoneResolvesToDefault ==
    EveryoneHandled =>
        /\ Resolve(EveryoneId) = target
        /\ \A i \in LogIdx :
              (log[i].op = "create" /\ log[i].kind = "role") => log[i].snap # EveryoneId

\* C18: when a restore ends with the failure result, or is ended by an
\* exception, every role and channel it created is still live in the target,
\* the reference entry registered for it (none if the registering itself
\* raised) still resolves to it, and the restore passed none of them to a
\* delete operation.
EndedWithFailure ==
    /\ Restoring
    /\ \/ pc = "crashed"
       \/ pc = "done" /\ Outcome = "couldnt_delete"
       \/ pc = "done" /\ ReachedResult /\ ~overall_success
RegisteringRaised(i) == pc = "crashed" /\ i = Len(log)
IsLive(kind, id) == IF kind = "role" THEN id \in LiveRoleIds ELSE id \in LiveChannelIds

C18_PartialApplicationKept ==
    EndedWithFailure =>
        \A i \in LogIdx :
            (log[i].op = "create" /\ log[i].ok) =>
                /\ IsLive(log[i].kind, log[i].id)
                /\ ~RegisteringRaised(i) => Resolve(log[i].snap) = log[i].id
                /\ \A j \in LogIdx : log[j].op = "delete" => log[j].id # log[i].id

C18_Witness ==
    /\ EndedWithFailure /\ pc = "done"
    /\ Outcome = "Couldn't load Backup."
    /\ \E i, j, k \in LogIdx :
         /\ log[i].op = "create" /\ log[i].kind = "role" /\ log[i].ok
         /\ log[j].op = "create" /\ log[j].kind = "channel" /\ log[j].ok
         /\ log[k].op = "delete" /\ log[k].kind = "role" /\ log[k].ok /\ j < k

\* C19: insert_backup called for an id that table backups already holds
\* raises, and the three tables (so the stored snapshot, its channel records
\* and its role records) are exactly as before the call: no row of the
\* rejected snapshot is visible.
InsertedExisting == last.op = "insert" /\ fetchone(last.before, last.id)

C19_DuplicateInsertRejected ==
    InsertedExisting =>
        /\ raised
        /\ db = last.before
        /\ select_backup(db, last.id) = select_backup(last.before, last.id)

C19_Witness ==
    /\ InsertedExisting /\ raised
    /\ last.id = "zz"
    /\ fetchone(db, BK)
    /\ select_backup(db, "zz") = Snapshot(13, TRUE, None)

\* C20: delete_backup never raises; for an id table backups does not hold it
\* leaves the tables as they are; applied once more it changes nothing; and
\* after it get_backup answers None for the id.
DeletedAbsent == last.op = "delete" /\ ~fetchone(last.before, last.id)

C20_DeleteIdempotent ==
    /\ last.op = "delete" =>
          /\ ~raised
          /\ DeletedAbsent => db = last.before
          /\ delete_backup(db, last.id) = db
          /\ ~fetchone(db, last.id)
    /\ last.op = "get" => (last.value = <<>> <=> ~fetchone(db, last.id))

\* a second delete of a snapshot that had been stored and deleted
C20_Witness ==
    /\ DeletedAbsent
    /\ last.id = BK
    /\ \E r \in db.guild_channels : r.backup_id = BK
    /\ fetchone(db, "zz")

\* C21: /backup load and /backup delete given an id that is not stored both
\* end by telling the caller that the snapshot was not found: no exception,
\* no remote call, and the snapshot tables and the reference table unchanged.
C21_NotFoundSurfaced ==
    [][(\E b \in BackupIds : ~HasBackup(b) /\ (LoadNotFound(b) \/ BackupDelete(b)))
          => /\ pc' = "done"
             /\ msgs' = <<Message("not_found", None)>>
             /\ log' = <<>>
             /\ refs' = refs /\ db' = db /\ backups' = backups /\ guilds' = guilds]_vars

\* C22: when /backup delete of a stored snapshot has completed, the reference
\* table holds no entry of that snapshot, for any target, and the entries of
\* every other snapshot are the ones it held before.
OfOtherBackups(rf, b) == {r \in rf : r.backup_id # b}

C22_DeleteCascades ==
    [][\A b \in BackupIds \cup RefBackups :
          (HasBackup(b) /\ BackupDelete(b))
             => /\ pc' = "done"
                /\ \A r \in refs' : r.backup_id # b
                /\ OfOtherBackups(refs', b) = OfOtherBackups(refs, b)
                /\ ~HasBackup(b)']_vars

C22_Witness ==
    /\ command = "delete" /\ pc = "done" /\ backup_id = BK
    /\ \E k \in RefKeys : k[1] = BK /\ track[k].st = "del" /\ track[k].val # k[3]
    /\ \E r \in refs : r.backup_id = "b2"
    /\ \A r \in refs : r.backup_id # BK

\* C23: when the target has a rules and an updates channel and the snapshot
\* recorded both, then from the end of Phase 0 to the end of the restore the
\* snapshot's rules id resolves to the target's rules channel and the
\* snapshot's updates id to the target's updates channel; when either side
\* has none, Phase 0 leaves the reference table as it is.
BothCommunity(g, b) == guilds[g].rules_channel # None /\ get_backup(b).rules_channel # None

RulesPinned ==
    /\ Resolve(get_backup(backup_id).rules_channel) = guilds[target].rules_channel
    /\ Resolve(get_backup(backup_id).public_updates_channel)
           = guilds[target].public_updates_channel

C23_Phase0Pinning ==
    /\ []((Restoring /\ BothCommunity(target, backup_id)) => RulesPinned)
    /\ [][\A g \in Guilds, b \in BackupIds, clear \in BOOLEAN :
             (Load(g, b, clear) /\ ~BothCommunity(g, b)) => refs' = refs]_vars

\* the same between the end of Phase 0 and the first exception, if any
C23_PinnedUntilException ==
    (Restoring /\ BothCommunity(target, backup_id) /\ pc # "crashed") => RulesPinned

\* C24: in a clear where no deletion raises, the roles passed to delete are
\* exactly the live roles that are not the default role, not managed,
\* assignable and not integration-owned, the channels passed to delete are
\* exactly the live channels other than the rules and updates channels, every
\* role deletion comes before every channel deletion, and the role loop of
\* Phase 2 starts only when all of them are done.
InClear(e) == e.op = "delete" /\ e.phase \in {"clear_roles", "clear_channels"}
CreatedHere(id) == \E i \in LogIdx : log[i].op = "create" /\ log[i].ok /\ log[i].id = id
ClearCompleted == Restoring /\ clear_guild /\ (pc = "roles" \/ visited # <<>>)
ClearableRole(g, id) ==
    /\ id # g
    /\ ~is_bot_managed(get_role(g, id))
    /\ is_assignable(get_role(g, id))
    /\ ~is_integration(get_role(g, id))
ClearableChannel(g, id) ==
    id \notin {guilds[g].rules_channel, guilds[g].public_updates_channel}
ClearDeletes == pc \in {"clear_roles", "clear_channels"} /\ DeleteItem

C24_ClearDeletesExactly ==
    /\ [](ClearCompleted =>
            /\ \A id \in LiveRoleIds : CreatedHere(id) \/ ~ClearableRole(target, id)
            /\ \A id \in LiveChannelIds : CreatedHere(id) \/ ~ClearableChannel(target, id)
            /\ \A i, j \in LogIdx :
                  (i < j /\ InClear(log[j]))
                     => InClear(log[i]) /\ log[i].ok
                        /\ (log[j].kind = "role" => log[i].kind = "role"))
    /\ [][ClearDeletes =>
            LET e == log'[Len(log')] IN
            IF e.kind = "role" THEN ClearableRole(target, e.id)
            ELSE ClearableChannel(target, e.id)]_vars

C24_Witness ==
    /\ ClearCompleted /\ pc = "done"
    /\ guilds[target].rules_channel \in LiveChannelIds
    /\ \E i, j, k \in LogIdx :
         /\ i < j /\ j < k
         /\ InClear(log[i]) /\ log[i].kind = "role"
         /\ InClear(log[j]) /\ log[j].kind = "channel"
         /\ log[k].op = "create" /\ log[k].ok

\* C25: every create or edit call for a snapshot channel that is no category
\* and has a category id passes as parent a live channel: the category that
\* this restore created or matched for that category id; every call for a
\* category passes no parent.
ParentFor(cat, i) ==
    \/ \E j \in 1..Len(visited) :
          visited[j].kind = "channel" /\ visited[j].snap = cat
          /\ visited[j].live = log[i].extra.category
    \/ \E k \in 1..(i - 1) :
          /\ log[k].op = "create" /\ log[k].kind = "channel" /\ log[k].ok
          /\ log[k].snap = cat /\ log[k].id = log[i].extra.category

C25_ParentResolved ==
    \A i \in LogIdx :
        IsChannelCall(log[i]) =>
            LET sc == SnapChannel(log[i].snap) IN
            IF sc.type = 4 THEN log[i].extra.category = None
            ELSE Get(sc, "category_id") # None =>
                    /\ log[i].extra.category # None
                    /\ ParentFor(sc.category_id, i)

\* C26: every overwrite passed to a channel create or edit call is keyed by
\* a role or member that is live in the target when the call is made and that
\* a target id of the snapshot channel's overwrites resolves to at that
\* moment; an overwrite whose resolved target is not live is not passed.
NewCalls == {i \in 1..Len(log') : i > Len(log) /\ IsChannelCall(log'[i])}

C26_OverwritesResolved ==
    [][ChannelStep =>
         \A i \in NewCalls :
            \A t \in SeqToSet(log'[i].extra.overwrites) :
                /\ HasMember(target, t) \/ HasRole(target, t)
                /\ \E o \in SeqToSet(SnapChannel(log'[i].snap).overwrites) :
                      get_reference_id(refs, backup_id, target, o) = t]_vars

\* a channel created with one of its two snapshot overwrites dropped
C26_Witness ==
    \E i \in LogIdx :
        /\ log[i].op = "create" /\ log[i].kind = "channel" /\ log[i].ok
        /\ SnapChannel(log[i].snap).overwrites = <<RoleR, SourceMember>>
        /\ Len(log[i].extra.overwrites) = 1
        /\ log[i].extra.overwrites[1] # RoleR

\* C27: whatever set, delete, delete-all, /backup delete and restore steps
\* were taken, the reference table holds at most one entry per snapshot id,
\* target id and old id, and no entry maps an id to itself.
C27_OneEntryPerKey ==
    /\ \A r1, r2 \in refs :
          (r1.backup_id = r2.backup_id /\ r1.guild_id = r2.guild_id /\ r1.old_id = r2.old_id)
             => r1 = r2
    /\ \A r \in refs : r.new_id # r.old_id

\* entries in two scopes after MaxOps calls, the last of which returned
C27_Witness ==
    /\ ops = MaxOps /\ ~raised
    /\ Cardinality(refs) >= 3
    /\ \E r1, r2 \in refs : r1.guild_id # r2.guild_id

\* C28: set(old, new) with old = new leaves the reference table as it is,
\* also when the scope holds an entry for old; set(old, new) with old # new
\* returns with old resolving to new in the scope, and with every entry of
\* another old id or another scope as before.
C28_SetFrame ==
    [][\A b \in RefBackups, g \in Guilds, old \in RefOldIds, new \in RefNewIds :
          RefSet(b, g, old, new) =>
             IF old = new THEN refs' = refs /\ ~raised'
             ELSE /\ ~raised'
                  /\ get_reference_id(refs', b, g, old) = new
                  /\ refs' \ Matching(refs', b, g, old) = refs \ Matching(refs, b, g, old)]_vars

\* the part about set(old, old) alone
C28_SetSameIdIsNoOp ==
    [][\A b \in RefBackups, g \in Guilds, old \in RefOldIds :
          RefSet(b, g, old, old) => refs' = refs /\ ~raised']_vars

\* C29: no step of a restore of snapshot S into target T, whatever its
\* outcome, adds, changes or removes a reference entry whose snapshot id is
\* not S or whose target id is not T.
OutsideScope(rf, b, g) == {r \in rf : r.backup_id # b \/ r.guild_id # g}

C29_RestoreStaysInScope ==
    [][(command' = "load" /\ target' # None)
          => OutsideScope(refs', backup_id', target') = OutsideScope(refs, backup_id', target')]_vars

\* a restore with a clear ended with its message while another scope holds
\* entries, after it wrote entries of its own
C29_Witness ==
    /\ Restoring /\ pc = "done" /\ clear_guild /\ Outcome = "Loaded Backup."
    /\ OutsideScope(refs, backup_id, target) # {}
    /\ ScopeRefs(refs) # {}
    /\ \E i \in LogIdx : InClear(log[i]) /\ log[i].ok

\* C30: when a clear has completed without error, no reference entry of the
\* restore's scope has as new id the id of a resource the clear deleted.
ClearedIds == {log[i].id : i \in {j \in LogIdx : InClear(log[j]) /\ log[j].ok}}

C30_ClearedResourcesUnreferenced ==
    ClearCompleted => \A r \in ScopeRefs(refs) : r.new_id \notin ClearedIds

\* the same at the moment the clear returns, before Phase 2 writes anything
C30_AtEndOfClear ==
    (ClearCompleted /\ visited = <<>>) => \A r \in ScopeRefs(refs) : r.new_id \notin ClearedIds

\* C31: a live channel that Phase 3 created, or matched as the counterpart of
\* a snapshot channel, is never passed to a delete operation by the orphan
\* channel cleanup of the same restore, and that cleanup deletes no channel
\* when a channel group failed.
InChannelCleanup(e) == e.op = "delete" /\ e.kind = "channel" /\ e.phase = "cleanup_channels"
CreatedChannels ==
    {log[i].id : i \in {j \in LogIdx : log[j].op = "create" /\ log[j].kind = "channel"
                                         /\ log[j].ok}}
MatchedChannels ==
    {visited[i].live : i \in {j \in 1..Len(visited) : visited[j].kind = "channel"}} \ {None}

C31_UsedChannelsKept ==
    \A i \in LogIdx :
        InChannelCleanup(log[i]) =>
            /\ log[i].id \notin CreatedChannels \cup MatchedChannels
            /\ ~ChannelEditFailed
            /\ category_backup_success /\ channels_backup_success

\* a successful restore that created a channel, matched one, and deleted an orphan
C31_Witness ==
    /\ pc = "done" /\ Outcome = "Loaded Backup."
    /\ \E i \in LogIdx : InChannelCleanup(log[i]) /\ log[i].ok
    /\ CreatedChannels # {} /\ MatchedChannels # {}
    /\ CreatedChannels \cup MatchedChannels \subseteq LiveChannelIds

\* C32: a live role that Phase 2 matched as the counterpart of a snapshot
\* role is never passed to a delete operation by the orphan role cleanup of
\* the same restore, whether Phase 2 edited it, found it unchanged, failed to
\* edit it, or skipped it as the bot's own managed role.
InRoleCleanup(e) == e.op = "delete" /\ e.kind = "role" /\ e.phase = "cleanup_roles"
MatchedRoles ==
    {visited[i].live : i \in {j \in 1..Len(visited) : visited[j].kind = "role"}} \ {None}

C32_MatchedRolesKept ==
    \A i \in LogIdx : InRoleCleanup(log[i]) => log[i].id \notin MatchedRoles

\* the same for the matched roles other than the bot's own managed role
C32_EditableMatchedRolesKept ==
    \A i \in LogIdx :
        (InRoleCleanup(log[i]) /\ log[i].id \in MatchedRoles)
            => /\ HasRole(target, log[i].id)
               /\ IsOwnBotRole(get_role(target, log[i].id))

\* C33: when a restore ends with the success result, every snapshot channel
\* resolves, in the restore's scope, to a channel that is live in the target
\* at the end of the restore, and distinct snapshot channels resolve to
\* distinct live channels.
EndedWithSuccess == ReachedResult /\ pc = "done" /\ overall_success

C33_Convergence ==
    EndedWithSuccess =>
        /\ \A id \in SnapChannelIds : Resolve(id) \in LiveChannelIds
        /\ \A id1, id2 \in SnapChannelIds : id1 # id2 => Resolve(id1) # Resolve(id2)

\* the same for the restores that deleted no live channel carrying the id of a
\* snapshot channel
C33_WhenNoSnapshotIdDeleted ==
    (EndedWithSuccess
     /\ \A i \in LogIdx : (log[i].op = "delete" /\ log[i].kind = "channel")
                               => log[i].id \notin SnapChannelIds)
        => /\ \A id \in SnapChannelIds : Resolve(id) \in LiveChannelIds
           /\ \A id1, id2 \in SnapChannelIds : id1 # id2 => Resolve(id1) # Resolve(id2)

====
